---- MODULE Spec2Model ----
(***************************************************************************)
(* GraphProcessor of assignment_1/graph_processing.py: the constructor's   *)
(* validation (structural checks, adjacency list, recursive DFS,           *)
(* connectivity check, second colour-based cycle check) and the two        *)
(* queries find_downstream_vertices and find_alternative_edges.            *)
(* PowerSim of power_system_simulation/power_system_simulation.py: the     *)
(* constructor's checks and its conversion of grid_data to a               *)
(* GraphProcessor call, and n1_calculations.                               *)
(***************************************************************************)
EXTENDS Integers, Sequences, FiniteSets

VARIABLES
    vertex_ids,             \* constructor argument: list of vertex ids
    edge_ids,               \* constructor argument: list of edge ids
    edge_vertex_id_pairs,   \* constructor argument: list of <<u, v>>
    edge_enabled,           \* constructor argument: list of booleans
    source_vertex_id,       \* constructor argument
    pc,                     \* position inside __init__ / after it
    error,                  \* the exception raised, [type, msg], or NoError
    adjacency_list,         \* local of __init__: vertex -> list of neighbours
    adjacency_built,        \* TRUE once build_adjacency_list has returned
    vertex_visited,         \* local of __init__: list filled by DFS
    vertex_parents,         \* local of __init__: dict filled by DFS
    stack,                  \* the call stack of the recursive DFS
    dfs_calls,              \* number of DFS invocations made so far
    outcome,                \* what the last query call did
    first_call,             \* what the first query call on the graph did
    called_by,              \* who called GraphProcessor(...)
    grid_data,              \* PowerSim: the caller's grid_data dictionary
    lv_feeders,             \* PowerSim: constructor argument, None or a list
    PowerSimModel,          \* PowerSim: the grid the PowerFlow model holds
    checks_done,            \* PowerSim: the checks evaluated so far, in order
    grid_before,            \* n1_calculations: grid_data at the call
    n1_disabled_edge_id,    \* n1_calculations: argument
    alt_edges,              \* n1_calculations: local
    alt_position,           \* n1_calculations: alternatives handled so far
    results,                \* n1_calculations: local, the rows appended
    solver_runs,            \* n1_calculations: the grids the solver ran on
    results_df,             \* n1_calculations: the returned table
    tap_data,               \* grid_data["transformer"]: tap_min, tap_max, tap_pos
    power_profiles,         \* PowerSim: self.active/reactive_power_profile
    call_args,              \* the arguments of the power-flow call in progress
    flow_figure,            \* the solver: tap position of a run -> its figure
    update_tap,             \* optimal_tap_position: local, the candidates
    tap_index,              \* optimal_tap_position: candidates handled so far
    energy_loss_aggregate,  \* optimal_tap_position: local dict
    voltage_deviation,      \* optimal_tap_position: local dict
    optimal_tap,            \* optimal_tap_position: the returned value
    batch_runs              \* the tap positions calculate_power_flow ran with

sweep == <<tap_data, power_profiles, call_args, flow_figure, update_tap,
           tap_index, energy_loss_aggregate, voltage_deviation, optimal_tap,
           batch_runs>>

sim == <<called_by, grid_data, lv_feeders, PowerSimModel, checks_done,
         grid_before, n1_disabled_edge_id, alt_edges, alt_position, results,
         solver_runs, results_df, sweep>>

vars == <<vertex_ids, edge_ids, edge_vertex_id_pairs, edge_enabled,
          source_vertex_id, pc, error, adjacency_list, adjacency_built,
          vertex_visited, vertex_parents, stack, dfs_calls, outcome,
          first_call, sim>>

inputs == <<vertex_ids, edge_ids, edge_vertex_id_pairs, edge_enabled,
            source_vertex_id>>

locals == <<adjacency_list, adjacency_built, vertex_visited, vertex_parents,
            stack, dfs_calls>>

-----------------------------------------------------------------------------
(* Bounds of the model.                                                    *)

\* Largest number of vertices of a generated graph input.
MaxVertices == 3

\* Largest number of edges of a generated graph input.
MaxEdges == 3

\* Largest length of each list of a generated free-form input.
MaxLen == 2

-----------------------------------------------------------------------------
(* Python helpers.                                                         *)

Range(s) == {s[i] : i \in DOMAIN s}

\* x in list
In(x, s) == \E i \in DOMAIN s : s[i] = x

\* len(set(s))
LenOfSet(s) == Cardinality(Range(s))

\* float("Nan"), the parent handed to the first DFS call.
NaN == -1

\* a != b where b may be NaN: NaN differs from everything.
PyNotEqual(a, b) == IF b = NaN THEN TRUE ELSE a # b

\* The position (1-based) that Python's lst[i] reads in a list of length n,
\* or 0 when lst[i] raises IndexError; negative i counts from the end.
PyIndex(n, i) ==
    IF i >= 0
    THEN IF i < n THEN i + 1 ELSE 0
    ELSE IF i >= -n THEN n + i + 1 ELSE 0

NoError == [type |-> "None", msg |-> ""]

Raise(t, m) == [type |-> t, msg |-> m]

-----------------------------------------------------------------------------
(* sort_tuple_list                                                         *)

\* tuple(sorted(t)) for a pair t
SortedTuple(t) == IF t[1] <= t[2] THEN t ELSE <<t[2], t[1]>>

\* [tuple(sorted(t)) for t in pairs], then sorted(..., key=lambda x: x[0]).
\* The sort is stable: an element goes after every element with a smaller
\* first component and after the earlier elements with the same one.
sort_tuple_list(pairs) ==
    LET t == [i \in DOMAIN pairs |-> SortedTuple(pairs[i])]
        Rank(i) == Cardinality({j \in DOMAIN t :
                       \/ t[j][1] < t[i][1]
                       \/ t[j][1] = t[i][1] /\ j <= i})
    IN  [k \in DOMAIN pairs |-> t[CHOOSE i \in DOMAIN pairs : Rank(i) = k]]

-----------------------------------------------------------------------------
(* __init__, checks 1 to 5 and the edge-pair check.                        *)

\* The structural checks with the source check moved before the
\* enabled-length check.
StructuralErrorSwapped(v, e, p, en, s) ==
    IF LenOfSet(v) # Len(v)
    THEN Raise("IDNotUniqueError", "Vertex IDs are not unique")
    ELSE IF LenOfSet(e) # Len(e)
    THEN Raise("IDNotUniqueError", "Edge IDs are not unique")
    ELSE IF Len(p) # Len(e)
    THEN Raise("InputLengthDoesNotMatchError",
               "Length of vertex-edge pairs list does not match edge ID list")
    ELSE IF \E i \in 1..Len(e) : ~In(p[i][1], v) \/ ~In(p[i][2], v)
    THEN Raise("IDNotFoundError",
               "Edge-vertex ID pair contains non-valid vertex ID")
    ELSE IF ~In(s, v)
    THEN Raise("IDNotFoundError", "Source vertex ID is not a valid vertex ID")
    ELSE IF Len(en) # Len(e)
    THEN Raise("InputLengthDoesNotMatchError",
               "Length of enabled edge list does not match edge ID list")
    ELSE IF Len(p) # LenOfSet(sort_tuple_list(p))
    THEN Raise("EdgePairNotUniqueError",
               "Multiple edges connecting same 2 vertices found")
    ELSE NoError

\* The structural checks without the edge-pair check of line 120.
StructuralErrorNoPairCheck(v, e, p, en, s) ==
    IF LenOfSet(v) # Len(v)
    THEN Raise("IDNotUniqueError", "Vertex IDs are not unique")
    ELSE IF LenOfSet(e) # Len(e)
    THEN Raise("IDNotUniqueError", "Edge IDs are not unique")
    ELSE IF Len(p) # Len(e)
    THEN Raise("InputLengthDoesNotMatchError",
               "Length of vertex-edge pairs list does not match edge ID list")
    ELSE IF \E i \in 1..Len(e) : ~In(p[i][1], v) \/ ~In(p[i][2], v)
    THEN Raise("IDNotFoundError",
               "Edge-vertex ID pair contains non-valid vertex ID")
    ELSE IF Len(en) # Len(e)
    THEN Raise("InputLengthDoesNotMatchError",
               "Length of enabled edge list does not match edge ID list")
    ELSE IF ~In(s, v)
    THEN Raise("IDNotFoundError", "Source vertex ID is not a valid vertex ID")
    ELSE NoError

\* Lines 91-121: the first failing check decides the exception.
StructuralError(v, e, p, en, s) ==
    IF LenOfSet(v) # Len(v)
    THEN Raise("IDNotUniqueError", "Vertex IDs are not unique")
    ELSE IF LenOfSet(e) # Len(e)
    THEN Raise("IDNotUniqueError", "Edge IDs are not unique")
    ELSE IF Len(p) # Len(e)
    THEN Raise("InputLengthDoesNotMatchError",
               "Length of vertex-edge pairs list does not match edge ID list")
    ELSE IF \E i \in 1..Len(e) : ~In(p[i][1], v) \/ ~In(p[i][2], v)
    THEN Raise("IDNotFoundError",
               "Edge-vertex ID pair contains non-valid vertex ID")
    ELSE IF Len(en) # Len(e)
    THEN Raise("InputLengthDoesNotMatchError",
               "Length of enabled edge list does not match edge ID list")
    ELSE IF ~In(s, v)
    THEN Raise("IDNotFoundError", "Source vertex ID is not a valid vertex ID")
    ELSE IF Len(p) # LenOfSet(sort_tuple_list(p))
    THEN Raise("EdgePairNotUniqueError",
               "Multiple edges connecting same 2 vertices found")
    ELSE NoError

StructuralChecks ==
    /\ pc = "called"
    /\ LET err == StructuralError(vertex_ids, edge_ids, edge_vertex_id_pairs,
                                  edge_enabled, source_vertex_id)
       IN  IF err # NoError
           THEN /\ pc' = "raised"
                /\ error' = err
           ELSE /\ pc' = "build"
                /\ error' = error
    /\ UNCHANGED <<inputs, locals, outcome, first_call, sim>>

-----------------------------------------------------------------------------
(* build_adjacency_list                                                    *)

\* A dict without keys.
EmptyDict == [x \in {} |-> <<>>]

RECURSIVE ZipFilter(_, _, _)
\* [num for num, m in zip(pairs, enabled) if m], from position i on; zip
\* stops at the shorter list.
ZipFilter(p, en, i) ==
    IF i > Len(p) \/ i > Len(en) THEN <<>>
    ELSE (IF en[i] THEN <<p[i]>> ELSE <<>>) \o ZipFilter(p, en, i + 1)

\* One pass of the loop body, lines 203-211.
AddEdge(adj, edge) ==
    LET u == edge[1]
        v == edge[2]
        a1 == [x \in DOMAIN adj \cup {u, v} |->
                  IF x \in DOMAIN adj THEN adj[x] ELSE <<>>]
        a2 == [a1 EXCEPT ![u] = Append(@, v)]
    IN  [a2 EXCEPT ![v] = Append(@, u)]

RECURSIVE AddEdges(_, _, _)
AddEdges(adj, edges, i) ==
    IF i > Len(edges) THEN adj
    ELSE AddEdges(AddEdge(adj, edges[i]), edges, i + 1)

build_adjacency_list(p, en) == AddEdges(EmptyDict, ZipFilter(p, en, 1), 1)

BuildAdjacencyList ==
    /\ pc = "build"
    /\ adjacency_list' = build_adjacency_list(edge_vertex_id_pairs, edge_enabled)
    /\ adjacency_built' = TRUE
    /\ pc' = "dfs_call"
    /\ UNCHANGED <<inputs, error, vertex_visited, vertex_parents, stack,
                   dfs_calls, outcome, first_call, sim>>

-----------------------------------------------------------------------------
(* DFS: the recursion is a stack of frames [node, parent, idx], idx the    *)
(* position of the for loop in adjacency_list[node].                       *)

\* parent_list[node] = node
SetParentToItself(parents, node, parent) ==
    [x \in DOMAIN parents \cup {node} |->
        IF x = node THEN node ELSE parents[x]]

\* parent_list[node] = parent
SetParent(parents, node, parent) ==
    [x \in DOMAIN parents \cup {node} |->
        IF x = node THEN parent ELSE parents[x]]

\* The traversal without the test of line 188.
CycleTestOmitted(adjacent, visited, parent) == FALSE

\* Line 188.
CycleDetected(adjacent, visited, parent) ==
    In(adjacent, visited) /\ PyNotEqual(adjacent, parent)

\* A traversal that enters a vertex whether or not it was entered before.
EnteredAnyway(start_node, visited) == TRUE

\* Line 182: start_node not in visited
NotVisited(start_node, visited) == ~In(start_node, visited)

\* Line 129: the first call, on the source with parent NaN.  visited is
\* empty, so the source is appended and its parent recorded; the for loop then
\* reads adjacency_list[start_node], a KeyError when the source is on no
\* enabled edge.
DFSStart ==
    /\ pc = "dfs_call"
    /\ dfs_calls' = dfs_calls + 1
    /\ vertex_visited' = Append(vertex_visited, source_vertex_id)
    /\ vertex_parents' = SetParent(vertex_parents, source_vertex_id, NaN)
    /\ IF source_vertex_id \in DOMAIN adjacency_list
       THEN /\ stack' = <<[node |-> source_vertex_id, parent |-> NaN, idx |-> 1]>>
            /\ pc' = "dfs"
            /\ error' = error
       ELSE /\ stack' = stack
            /\ pc' = "raised"
            /\ error' = Raise("KeyError", "")
    /\ UNCHANGED <<inputs, adjacency_list, adjacency_built, outcome, first_call, sim>>

\* One pass of the for loop of the innermost call (lines 187-190), with the
\* entry of the recursive call it makes (lines 182-185).
DFSStep ==
    /\ pc = "dfs"
    /\ stack # <<>>
    /\ LET top == stack[Len(stack)]
           nbrs == adjacency_list[top.node]
       IN  /\ top.idx <= Len(nbrs)
           /\ LET adjacent == nbrs[top.idx]
                  caller == [top EXCEPT !.idx = @ + 1]
                  rest == SubSeq(stack, 1, Len(stack) - 1)
              IN  IF CycleDetected(adjacent, vertex_visited, top.parent)
                  THEN /\ pc' = "raised"
                       /\ error' = Raise("GraphCycleError", "Cycle detected")
                       /\ UNCHANGED <<vertex_visited, vertex_parents, stack,
                                      dfs_calls>>
                  ELSE /\ dfs_calls' = dfs_calls + 1
                       /\ UNCHANGED <<pc, error>>
                       /\ IF NotVisited(adjacent, vertex_visited)
                          THEN /\ vertex_visited' = Append(vertex_visited, adjacent)
                               /\ vertex_parents' =
                                      SetParent(vertex_parents, adjacent, top.node)
                               /\ stack' = rest \o <<caller,
                                      [node |-> adjacent, parent |-> top.node,
                                       idx |-> 1]>>
                          ELSE /\ stack' = rest \o <<caller>>
                               /\ UNCHANGED <<vertex_visited, vertex_parents>>
    /\ UNCHANGED <<inputs, adjacency_list, adjacency_built, outcome, first_call, sim>>

\* The for loop of the innermost call is exhausted: the call returns
\* (line 192).  The return of the first call ends the traversal.
DFSReturn ==
    /\ pc = "dfs"
    /\ stack # <<>>
    /\ LET top == stack[Len(stack)]
       IN  top.idx > Len(adjacency_list[top.node])
    /\ stack' = SubSeq(stack, 1, Len(stack) - 1)
    /\ pc' = IF Len(stack) = 1 THEN "connectivity" ELSE "dfs"
    /\ UNCHANGED <<inputs, error, adjacency_list, adjacency_built,
                   vertex_visited, vertex_parents, dfs_calls, outcome,
                   first_call, sim>>

-----------------------------------------------------------------------------
(* Lines 131-132.                                                          *)

\* The length test of line 131 with > for !=.
NotAllVisitedNever(visited, v) == Len(visited) > Len(v)

NotAllVisited(visited, v) == Len(visited) # Len(v)

ConnectivityCheck ==
    /\ pc = "connectivity"
    /\ IF NotAllVisited(vertex_visited, vertex_ids)
       THEN /\ pc' = "raised"
            /\ error' = Raise("GraphNotFullyConnectedError",
                              "Graph not fully connected")
       ELSE /\ pc' = "cycle_check"
            /\ error' = error
    /\ UNCHANGED <<inputs, locals, outcome, first_call, sim>>

-----------------------------------------------------------------------------
(* Lines 134-173: the second cycle check.                                  *)

\* None, the initial parent of the colour-based dfs.
PyNone == -2

\* edge_enabled[edge_id - 1] raises IndexError for some edge.
EnabledIndexError(e, en) ==
    \E k \in DOMAIN e : PyIndex(Len(en), e[k] - 1) = 0

\* edge_enabled[edge_id - 1] for the edge at position k.
EnabledOfId(e, en, k) == en[PyIndex(Len(en), e[k] - 1)]

RECURSIVE DirectedGraph(_, _, _, _, _)
\* Lines 135-138 from position k on: graph[u].append(v) for every edge whose
\* flag, read at position edge_id - 1, is true.
DirectedGraph(g, e, p, en, k) ==
    IF k > Len(e) \/ k > Len(p) THEN g
    ELSE DirectedGraph(
            IF EnabledOfId(e, en, k)
            THEN [g EXCEPT ![p[k][1]] = Append(@, p[k][2])]
            ELSE g,
            e, p, en, k + 1)

RECURSIVE ColourDfs(_, _, _)
RECURSIVE ColourLoop(_, _, _, _)
\* dfs(u, color, parent), lines 146-158; st holds color, parent and the
\* returned value.
ColourDfs(g, u, st) ==
    LET r == ColourLoop(g, u, 1, [st EXCEPT !.color[u] = "G"])
    IN  IF r.cycle THEN r ELSE [r EXCEPT !.color[u] = "B"]

ColourLoop(g, u, i, st) ==
    IF i > Len(g[u]) THEN st
    ELSE LET v == g[u][i]
         IN  IF st.color[v] = "W"
             THEN LET r == ColourDfs(g, v, [st EXCEPT !.parent[v] = u])
                  IN  IF r.cycle THEN r ELSE ColourLoop(g, u, i + 1, r)
             ELSE IF st.color[v] = "G" /\ st.parent[u] # v
             THEN [st EXCEPT !.cycle = TRUE]
             ELSE ColourLoop(g, u, i + 1, st)

RECURSIVE ColourOuter(_, _, _, _)
\* Lines 160-165: the loop over graph.keys(), in the order of vertex_ids.
ColourOuter(g, v, k, st) ==
    IF k > Len(v) THEN st
    ELSE IF st.color[v[k]] = "W"
    THEN LET r == ColourDfs(g, v[k], st)
         IN  IF r.cycle THEN r ELSE ColourOuter(g, v, k + 1, r)
    ELSE ColourOuter(g, v, k + 1, st)

\* is_cyclic of line 167.
is_cyclic(v, e, p, en) ==
    LET g == DirectedGraph([x \in Range(v) |-> <<>>], e, p, en, 1)
        st0 == [color |-> [x \in Range(v) |-> "W"],
                parent |-> [x \in Range(v) |-> PyNone],
                cycle |-> FALSE]
    IN  ColourOuter(g, v, 1, st0).cycle

CycleCheck ==
    /\ pc = "cycle_check"
    /\ IF EnabledIndexError(edge_ids, edge_enabled)
       THEN /\ pc' = "raised"
            /\ error' = Raise("IndexError", "list index out of range")
       ELSE IF is_cyclic(vertex_ids, edge_ids, edge_vertex_id_pairs, edge_enabled)
       THEN /\ pc' = "raised"
            /\ error' = Raise("GraphCycleError", "There is a cycle in the graph")
       ELSE IF NotAllVisited(vertex_visited, vertex_ids)
       THEN /\ pc' = "raised"
            /\ error' = Raise("GraphNotFullyConnectedError",
                              "Graph not fully connected. Cannot reach all vertices.")
       ELSE /\ pc' = "returned"
            /\ error' = error
    /\ UNCHANGED <<inputs, locals, outcome, first_call, sim>>

-----------------------------------------------------------------------------
(* The queries: both bodies are a docstring followed by pass.              *)

NoCall == [op |-> "none", arg |-> 0, kind |-> "none", value |-> <<>>,
           error |-> "None"]

\* The arguments tried: every edge id and one integer that is no edge id.
QueryArgs ==
    Range(edge_ids) \cup
    {CHOOSE x \in 0..(Len(edge_ids) + 1) : ~In(x, edge_ids)}

\* Lines 215-240: pass, the call returns None.
find_downstream_vertices(edge_id) ==
    [op |-> "find_downstream_vertices", arg |-> edge_id, kind |-> "None",
     value |-> <<>>, error |-> "None"]

\* Lines 242-281: pass, the call returns None.
find_alternative_edges(disabled_edge_id) ==
    [op |-> "find_alternative_edges", arg |-> disabled_edge_id,
     kind |-> "None", value |-> <<>>, error |-> "None"]

\* A query that clears the flag of the edge it is asked about.
EnabledAfterDisabling(en, e, edge_id) ==
    [i \in DOMAIN en |-> IF i \in DOMAIN e /\ e[i] = edge_id THEN FALSE ELSE en[i]]

\* Lines 215-281: neither body assigns to anything, so the enabled flags of
\* the caller's list after a query are the flags before it.
EnabledAfterQuery(en, e, edge_id) == en

FindDownstreamVertices ==
    /\ pc = "returned"
    /\ called_by = "GraphProcessor"
    /\ \E edge_id \in QueryArgs :
          /\ outcome' = find_downstream_vertices(edge_id)
          /\ edge_enabled' = EnabledAfterQuery(edge_enabled, edge_ids, edge_id)
    /\ first_call' = IF first_call = NoCall THEN outcome' ELSE first_call
    /\ UNCHANGED <<vertex_ids, edge_ids, edge_vertex_id_pairs,
                   source_vertex_id, pc, error, locals, sim>>

FindAlternativeEdges ==
    /\ pc = "returned"
    /\ called_by = "GraphProcessor"
    /\ \E edge_id \in QueryArgs :
          /\ outcome' = find_alternative_edges(edge_id)
          /\ edge_enabled' = EnabledAfterQuery(edge_enabled, edge_ids, edge_id)
    /\ first_call' = IF first_call = NoCall THEN outcome' ELSE first_call
    /\ UNCHANGED <<vertex_ids, edge_ids, edge_vertex_id_pairs,
                   source_vertex_id, pc, error, locals, sim>>

-----------------------------------------------------------------------------
(* The constructor calls the model makes.                                  *)

\* grid_data of a GraphProcessor that no PowerSim built.
NoGrid == [node |-> <<>>, line |-> <<>>, source |-> <<>>, transformer |-> <<>>]

\* lv_feeders=None, and lv_feeders=[...].
NoFeeders == [is_none |-> TRUE, list |-> <<>>]

Feeders(list) == [is_none |-> FALSE, list |-> list]

\* results_df before n1_calculations has returned.
NoTable == [columns |-> <<>>, rows |-> <<>>]

\* The tap positions a transformer can have.
MaxTap == 1

Taps == (0 - MaxTap)..MaxTap

\* The transformer's tap fields of a grid no tap sweep is run on.
NoTaps == [tap_min |-> 0, tap_max |-> 0, tap_pos |-> 0]

\* A power profile that is None, and a DataFrame by its index and columns.
NoProfile == [is_none |-> TRUE, index |-> <<>>, columns |-> <<>>]

Profile(index, columns) ==
    [is_none |-> FALSE, index |-> index, columns |-> columns]

\* PowerSim(grid_data) called without profiles: both attributes are None.
NoProfiles == [active |-> NoProfile, reactive |-> NoProfile]

\* No power-flow call in progress.
NoArgs == [active |-> NoProfile, reactive |-> NoProfile, tap_value |-> 0,
           opt_criteria |-> "None"]

\* The solver's figures before a call has fixed the profiles.
NoFigure == [t \in Taps |-> 0]

Input(v, e, p, en, s) ==
    [vertex_ids |-> v, edge_ids |-> e, edge_vertex_id_pairs |-> p,
     edge_enabled |-> en, source_vertex_id |-> s]

\* The graph of the docstring of find_alternative_edges.
DocstringGraph ==
    Input(<<0, 2, 4, 6, 10>>, <<1, 3, 5, 9, 7, 8>>,
          << <<0, 2>>, <<0, 4>>, <<0, 6>>, <<2, 10>>, <<2, 4>>, <<4, 6>> >>,
          <<TRUE, TRUE, TRUE, TRUE, FALSE, FALSE>>, 0)

\* The same graph with the edges numbered by their position.
DocstringGraphRenumbered ==
    [DocstringGraph EXCEPT !.edge_ids = <<1, 2, 3, 4, 5, 6>>]

\* A chain of four vertices with every edge enabled, rooted at one end.
ChainGraph ==
    Input(<<0, 1, 2, 3>>, <<1, 2, 3>>,
          << <<0, 1>>, <<1, 2>>, <<2, 3>> >>, <<TRUE, TRUE, TRUE>>, 0)

LexLess(a, b) == a[1] < b[1] \/ (a[1] = b[1] /\ a[2] < b[2])

RECURSIVE Listed(_)
\* The pairs of a set, listed in lexicographic order.
Listed(S) ==
    IF S = {} THEN <<>>
    ELSE LET m == CHOOSE a \in S : \A b \in S \ {a} : LexLess(a, b)
         IN  <<m>> \o Listed(S \ {m})

Reversed(s) == [i \in DOMAIN s |-> s[Len(s) + 1 - i]]

\* The unordered vertex pairs over 0..n-1, self-loops included.
UnorderedPairs(n) == {pr \in (0..(n - 1)) \X (0..(n - 1)) : pr[1] <= pr[2]}

EdgeSets(n) == {S \in SUBSET UnorderedPairs(n) : Cardinality(S) <= MaxEdges}

\* The numberings of m edges: by position, by position from the end, from
\* zero, and the odd numbers.
EdgeIdLists(m) ==
    { [i \in 1..m |-> i], [i \in 1..m |-> m + 1 - i],
      [i \in 1..m |-> i - 1], [i \in 1..m |-> 2 * i - 1] }

SeqsUpTo(S, n) == UNION {[1..k -> S] : k \in 0..n}

InitWith(in) ==
    /\ vertex_ids = in.vertex_ids
    /\ edge_ids = in.edge_ids
    /\ edge_vertex_id_pairs = in.edge_vertex_id_pairs
    /\ edge_enabled = in.edge_enabled
    /\ source_vertex_id = in.source_vertex_id
    /\ pc = "called"
    /\ error = NoError
    /\ adjacency_list = EmptyDict
    /\ adjacency_built = FALSE
    /\ vertex_visited = <<>>
    /\ vertex_parents = EmptyDict
    /\ stack = <<>>
    /\ dfs_calls = 0
    /\ outcome = NoCall
    /\ first_call = NoCall
    /\ called_by = "GraphProcessor"
    /\ grid_data = NoGrid
    /\ lv_feeders = NoFeeders
    /\ PowerSimModel = NoGrid
    /\ checks_done = <<>>
    /\ grid_before = NoGrid
    /\ n1_disabled_edge_id = 0
    /\ alt_edges = <<>>
    /\ alt_position = 0
    /\ results = <<>>
    /\ solver_runs = <<>>
    /\ results_df = NoTable
    /\ tap_data = NoTaps
    /\ power_profiles = NoProfiles
    /\ call_args = NoArgs
    /\ flow_figure = NoFigure
    /\ update_tap = <<>>
    /\ tap_index = 0
    /\ energy_loss_aggregate = <<>>
    /\ voltage_deviation = <<>>
    /\ optimal_tap = PyNone
    /\ batch_runs = <<>>

\* Structurally valid inputs: n vertices 0..n-1, any set of at most MaxEdges
\* distinct unordered pairs listed forwards or backwards, any enabled flags,
\* any source.
InitGenerated ==
    \E n \in 1..MaxVertices :
    \E S \in EdgeSets(n) :
    \E p \in {Listed(S), Reversed(Listed(S))} :
    \E e \in EdgeIdLists(Len(p)) :
    \E en \in [1..Len(p) -> BOOLEAN] :
    \E s \in 0..(n - 1) :
        InitWith(Input([i \in 1..n |-> i - 1], e, p, en, s))

Init ==
    \/ InitGenerated
    \/ \E in \in {DocstringGraph, DocstringGraphRenumbered, ChainGraph} :
          InitWith(in)

\* Free-form inputs: every list of at most MaxLen elements over two vertex
\* values and two edge ids.
InitFree ==
    \E v \in SeqsUpTo(0..1, MaxLen) :
    \E e \in SeqsUpTo(1..2, MaxLen) :
    \E p \in SeqsUpTo((0..1) \X (0..1), MaxLen) :
    \E en \in SeqsUpTo(BOOLEAN, MaxLen) :
    \E s \in 0..1 :
        InitWith(Input(v, e, p, en, s))

Next ==
    \/ StructuralChecks
    \/ BuildAdjacencyList
    \/ DFSStart
    \/ DFSStep
    \/ DFSReturn
    \/ ConnectivityCheck
    \/ CycleCheck
    \/ FindDownstreamVertices
    \/ FindAlternativeEdges

\* Constructor calls on structurally valid graphs.
Spec == Init /\ [][Next]_vars

\* Constructor calls on free-form lists.
SpecFree == InitFree /\ [][Next]_vars

\* The steps of __init__.
Construct ==
    \/ StructuralChecks
    \/ BuildAdjacencyList
    \/ DFSStart
    \/ DFSStep
    \/ DFSReturn
    \/ ConnectivityCheck
    \/ CycleCheck

\* Constructor calls that are run to their end: the interpreter takes the
\* next step of __init__ whenever there is one.
SpecLive == Init /\ [][Next]_vars /\ WF_vars(Construct)

-----------------------------------------------------------------------------
(* What the inputs are, stated without the code's procedure.               *)

V == Range(vertex_ids)

DuplicateVertexId ==
    \E i, j \in DOMAIN vertex_ids : i # j /\ vertex_ids[i] = vertex_ids[j]

DuplicateEdgeId ==
    \E i, j \in DOMAIN edge_ids : i # j /\ edge_ids[i] = edge_ids[j]

PairLengthDiffers == Len(edge_vertex_id_pairs) # Len(edge_ids)

ForeignEndpoint ==
    \E i \in DOMAIN edge_vertex_id_pairs :
        edge_vertex_id_pairs[i][1] \notin V \/ edge_vertex_id_pairs[i][2] \notin V

EnabledLengthDiffers == Len(edge_enabled) # Len(edge_ids)

SourceNotVertex == source_vertex_id \notin V

Ends(i) == {edge_vertex_id_pairs[i][1], edge_vertex_id_pairs[i][2]}

RepeatedPair ==
    \E i, j \in DOMAIN edge_vertex_id_pairs : i # j /\ Ends(i) = Ends(j)

StructurallyInvalid ==
    \/ DuplicateVertexId
    \/ DuplicateEdgeId
    \/ PairLengthDiffers
    \/ ForeignEndpoint
    \/ EnabledLengthDiffers
    \/ SourceNotVertex
    \/ RepeatedPair

\* The exception type of the first violated check, in the documented order.
FirstViolatedCheckError ==
    CASE DuplicateVertexId -> "IDNotUniqueError"
      [] ~DuplicateVertexId /\ DuplicateEdgeId -> "IDNotUniqueError"
      [] OTHER ->
            IF PairLengthDiffers THEN "InputLengthDoesNotMatchError"
            ELSE IF ForeignEndpoint THEN "IDNotFoundError"
            ELSE IF EnabledLengthDiffers THEN "InputLengthDoesNotMatchError"
            ELSE IF SourceNotVertex THEN "IDNotFoundError"
            ELSE IF RepeatedPair THEN "EdgePairNotUniqueError"
            ELSE "None"

\* How many of the seven checks the input violates.
ViolationCount ==
    Cardinality({k \in 1..7 :
        \/ k = 1 /\ DuplicateVertexId
        \/ k = 2 /\ DuplicateEdgeId
        \/ k = 3 /\ PairLengthDiffers
        \/ k = 4 /\ ForeignEndpoint
        \/ k = 5 /\ EnabledLengthDiffers
        \/ k = 6 /\ SourceNotVertex
        \/ k = 7 /\ RepeatedPair})

\* The positions of the enabled edges (of a structurally valid input).
EnabledEdges == {i \in DOMAIN edge_enabled : edge_enabled[i]}

DisabledEdges == {i \in DOMAIN edge_enabled : ~edge_enabled[i]}

RECURSIVE ReachableFrom(_, _)
\* The vertices joined to a vertex of R by a path of edges of E.
ReachableFrom(E, R) ==
    LET R2 == R \cup {x \in V : \E i \in E : x \in Ends(i) /\ Ends(i) \cap R # {}}
    IN  IF R2 = R THEN R ELSE ReachableFrom(E, R2)

\* Every vertex is joined to the source by edges of E.
ReachesAll(E) == ReachableFrom(E, {source_vertex_id}) = V

\* Some edge of E closes a cycle: its ends are joined without it.
HasCycle(E) ==
    \E i \in E :
        edge_vertex_id_pairs[i][2] \in
            ReachableFrom(E \ {i}, {edge_vertex_id_pairs[i][1]})

IsSpanningTree(E) == ReachesAll(E) /\ ~HasCycle(E)

Finished == pc \in {"raised", "returned"}

RaisedType(t) == pc = "raised" /\ error.type = t

-----------------------------------------------------------------------------
\* C1: construction completes without raising for every input that satisfies
\* all construction invariants (structurally valid, enabled edges a spanning
\* tree rooted at the source), whatever the edge ids and the listing order.
C1_ValidInputNeverRaises ==
    (~StructurallyInvalid /\ IsSpanningTree(EnabledEdges)) => pc # "raised"

\* C2: a structurally valid input whose enabled edges have no cycle but do not
\* join every vertex to the source ends in GraphNotFullyConnectedError, also
\* when the source is on no enabled edge.
C2_DisconnectedRaisesNotFullyConnected ==
    (~StructurallyInvalid /\ ~HasCycle(EnabledEdges) /\ ~ReachesAll(EnabledEdges)
        /\ Finished)
    => RaisedType("GraphNotFullyConnectedError")

\* C3: a structurally valid input whose enabled edges reach every vertex from
\* the source and contain a cycle ends in GraphCycleError.
C3_ConnectedCycleRaisesCycleError ==
    (~StructurallyInvalid /\ ReachesAll(EnabledEdges) /\ HasCycle(EnabledEdges)
        /\ Finished)
    => RaisedType("GraphCycleError")

\* A cycle of three enabled edges, no self-loop, all vertices reached, and the
\* constructor has raised.
C3_Witness ==
    /\ ~StructurallyInvalid
    /\ ReachesAll(EnabledEdges) /\ HasCycle(EnabledEdges)
    /\ \A i \in EnabledEdges : Cardinality(Ends(i)) = 2
    /\ Len(edge_ids) = Cardinality(EnabledEdges)
    /\ RaisedType("GraphCycleError")

\* C4: once the structural checks have run on an input that violates some of
\* them, the exception raised is that of the first violated check in the
\* order vertex ids, edge ids, pair length, endpoints, enabled length, source,
\* repeated pair.
C4_FirstViolatedCheckDecides ==
    (pc # "called" /\ StructurallyInvalid)
    => RaisedType(FirstViolatedCheckError)

\* An input violating the enabled-length check and two later checks at once
\* has been rejected.
C4_Witness ==
    /\ pc = "raised"
    /\ ~DuplicateVertexId /\ ~DuplicateEdgeId /\ ~PairLengthDiffers
    /\ ~ForeignEndpoint
    /\ EnabledLengthDiffers /\ SourceNotVertex /\ RepeatedPair
    /\ error.type = "InputLengthDoesNotMatchError"

\* C5: for an input that violates a structural check the adjacency list is
\* never built and no DFS call is made, so neither traversal error is raised;
\* a repeated vertex id gives IDNotUniqueError whatever the enabled edges are.
C5_StructuralChecksPrecedeTraversal ==
    StructurallyInvalid =>
        /\ ~adjacency_built
        /\ dfs_calls = 0
        /\ vertex_visited = <<>>
        /\ pc \in {"called", "raised"}
        /\ error.type \notin {"GraphNotFullyConnectedError", "GraphCycleError"}
        /\ (DuplicateVertexId /\ pc = "raised" => error.type = "IDNotUniqueError")

\* A repeated vertex id together with an enabled self-loop, a cycle the
\* traversal would report: rejected with IDNotUniqueError.
C5_Witness ==
    /\ DuplicateVertexId
    /\ ~PairLengthDiffers /\ ~EnabledLengthDiffers /\ ~ForeignEndpoint
    /\ ~SourceNotVertex
    /\ HasCycle(EnabledEdges)
    /\ RaisedType("IDNotUniqueError")

\* C6: a structurally valid input whose enabled edges both miss a vertex and
\* contain a cycle ends in GraphNotFullyConnectedError, not GraphCycleError.
C6_ConnectivityBeforeCycle ==
    (~StructurallyInvalid /\ ~ReachesAll(EnabledEdges) /\ HasCycle(EnabledEdges)
        /\ Finished)
    => RaisedType("GraphNotFullyConnectedError")

\* C7: when construction has completed, the enabled edges are a spanning tree,
\* there are (vertex count - 1) of them, and the visited list holds every
\* vertex exactly once.
C7_AcceptedIsSpanningTree ==
    pc = "returned" =>
        /\ IsSpanningTree(EnabledEdges)
        /\ Cardinality(EnabledEdges) = Cardinality(V) - 1
        /\ Range(vertex_visited) = V
        /\ \A x \in V :
              Cardinality({k \in DOMAIN vertex_visited : vertex_visited[k] = x}) = 1

\* An accepted graph of three vertices with a disabled third edge.
C7_Witness ==
    /\ pc = "returned"
    /\ Cardinality(V) = 3
    /\ Cardinality(EnabledEdges) = 2
    /\ DisabledEdges # {}

-----------------------------------------------------------------------------
(* What the queries are documented to return.                              *)

\* The position of the edge with id x, 0 when there is none.
EdgeAt(x) ==
    IF In(x, edge_ids) THEN CHOOSE i \in DOMAIN edge_ids : edge_ids[i] = x ELSE 0

RECURSIVE Ascending(_)
\* The integers of a set in ascending order.
Ascending(S) ==
    IF S = {} THEN <<>>
    ELSE LET m == CHOOSE a \in S : \A b \in S : a <= b
         IN  <<m>> \o Ascending(S \ {m})

\* The ids of the disabled edges that make the enabled edges a spanning tree
\* again once the edge at position i is disabled.
AlternativeIds(i) ==
    {edge_ids[j] : j \in
        {j \in DisabledEdges : IsSpanningTree((EnabledEdges \ {i}) \cup {j})}}

\* The vertices cut off from the source when the edge at position i goes.
Downstream(i) == V \ ReachableFrom(EnabledEdges \ {i}, {source_vertex_id})

CalledOnEnabledEdge(op) ==
    /\ outcome.op = op
    /\ EdgeAt(outcome.arg) \in EnabledEdges

\* C8: find_alternative_edges on an enabled edge returns, in ascending id
\* order, exactly the disabled edges that restore a spanning tree.
C8_AlternativeEdgesExact ==
    CalledOnEnabledEdge("find_alternative_edges") =>
        /\ outcome.kind = "list"
        /\ outcome.value = Ascending(AlternativeIds(EdgeAt(outcome.arg)))

\* C9: find_downstream_vertices on an enabled edge returns exactly the
\* vertices of the subtree below the edge.
C9_DownstreamExact ==
    CalledOnEnabledEdge("find_downstream_vertices") =>
        /\ outcome.kind = "list"
        /\ Range(outcome.value) = Downstream(EdgeAt(outcome.arg))

\* C10: find_alternative_edges raises IDNotFoundError for an argument that is
\* no edge id and EdgeAlreadyDisabledError for the id of a disabled edge.
C10_AlternativeEdgesErrors ==
    outcome.op = "find_alternative_edges" =>
        /\ ~In(outcome.arg, edge_ids) =>
              (outcome.kind = "raise" /\ outcome.error = "IDNotFoundError")
        /\ EdgeAt(outcome.arg) \in DisabledEdges =>
              (outcome.kind = "raise" /\ outcome.error = "EdgeAlreadyDisabledError")

\* C11: find_downstream_vertices raises IDNotFoundError for an argument that
\* is not the id of any edge.
C11_DownstreamUnknownIdRaises ==
    (outcome.op = "find_downstream_vertices" /\ ~In(outcome.arg, edge_ids)) =>
        (outcome.kind = "raise" /\ outcome.error = "IDNotFoundError")

\* C12: find_downstream_vertices on the id of a disabled edge returns an empty
\* collection: it raises nothing and the value is not missing.
C12_DownstreamDisabledReturnsEmpty ==
    (/\ outcome.op = "find_downstream_vertices"
     /\ In(outcome.arg, edge_ids)
     /\ EdgeAt(outcome.arg) \in DisabledEdges) =>
        (outcome.kind = "list" /\ outcome.value = <<>>)

-----------------------------------------------------------------------------
(* PowerSim: bounds and grids.                                             *)

\* Largest number of nodes of a generated grid.
MaxNodes == 3

\* Largest number of lines of a generated grid.
MaxLines == 2

\* Largest length of a generated lv_feeders list.
MaxFeeders == 2

\* Largest number of sources, and of transformers, of a generated grid.
MaxCount == 2

\* One row of grid_data["line"] or of grid_data["transformer"].
Branch(id, f, t, fs, ts) ==
    [id |-> id, from_node |-> f, to_node |-> t, from_status |-> fs,
     to_status |-> ts]

Grid(node, line, source, transformer) ==
    [node |-> node, line |-> line, source |-> source,
     transformer |-> transformer]

\* The grid of test_InvalidLVFeederIDError, which is a radial network.
TestGrid ==
    Grid(<<2, 4, 6>>, <<Branch(5, 4, 6, 1, 1)>>, <<[node |-> 2]>>,
         <<Branch(3, 2, 4, 1, 1)>>)

\* The grid of test_GraphNotFullyConnectedError: node 45 has no branch.
TestGridNotFullyConnected ==
    Grid(<<2, 4, 6, 45>>, <<Branch(5, 4, 6, 1, 1)>>, <<[node |-> 2]>>,
         <<Branch(3, 2, 4, 1, 1)>>)

\* The grid of test_CycleError: lines 5 and 20 and transformer 3 in a ring.
TestGridCycle ==
    Grid(<<2, 4, 6>>, <<Branch(5, 4, 6, 1, 1), Branch(20, 2, 6, 1, 1)>>,
         <<[node |-> 2]>>, <<Branch(3, 2, 4, 1, 1)>>)

\* The two status values of a branch end.
Statuses == {0, 1}

\* The lines of a generated grid: the pairs of a list with ids 1, 2, ... and
\* the statuses st[i].
LinesOf(p, st) ==
    [i \in DOMAIN p |-> Branch(i, p[i][1], p[i][2], st[i][1], st[i][2])]

\* The ordered pairs of distinct nodes over 0..n-1.
OrderedPairs(n) == {pr \in (0..(n - 1)) \X (0..(n - 1)) : pr[1] # pr[2]}

LineSets(P) == {S \in SUBSET P : Cardinality(S) <= MaxLines}

-----------------------------------------------------------------------------
(* PowerSim.__init__                                                       *)

\* power_flow_processing.py lines 60-64: PowerGridModel(grid_data) builds its
\* own components from the arrays it is given; what it holds is the grid of
\* that moment.
PowerGridModel(g) == g

\* Line 61.
PowerFlowInit ==
    /\ pc = "PowerSim"
    /\ PowerSimModel' = PowerGridModel(grid_data)
    /\ pc' = "source_check"
    /\ UNCHANGED <<inputs, error, locals, outcome, first_call, called_by,
                   grid_data, lv_feeders, checks_done, grid_before,
                   n1_disabled_edge_id, alt_edges, alt_position, results,
                   solver_runs, results_df,
                   sweep>>

\* The constructor's own steps change pc, error and checks_done only.
SimFrame ==
    UNCHANGED <<inputs, locals, outcome, first_call, called_by, grid_data,
                lv_feeders, PowerSimModel, grid_before, n1_disabled_edge_id,
                alt_edges, alt_position, results, solver_runs, results_df,
                sweep>>

\* A test that passes whenever the table has a row.
NoRow(table) == Len(table) = 0

\* Lines 70 and 74: len(table) != 1
NotExactlyOne(table) == Len(table) # 1

\* Lines 69-71.
SourceCheck ==
    /\ pc = "source_check"
    /\ checks_done' = Append(checks_done, "source")
    /\ IF NotExactlyOne(grid_data.source)
       THEN /\ pc' = "raised"
            /\ error' = Raise("NotExactlyOneSourceError",
                              "There is not exactly one source")
       ELSE /\ pc' = "transformer_check"
            /\ error' = error
    /\ SimFrame

\* Lines 73-75.
TransformerCheck ==
    /\ pc = "transformer_check"
    /\ checks_done' = Append(checks_done, "transformer")
    /\ IF NotExactlyOne(grid_data.transformer)
       THEN /\ pc' = "raised"
            /\ error' = Raise("NotExactlyOneTransformerError",
                              "There is not exactly one transformer")
       ELSE /\ pc' = "lv_feeder_id"
            /\ error' = error
    /\ SimFrame

\* grid_data["line"]["id"]
LineIds(g) == [i \in DOMAIN g.line |-> g.line[i].id]

\* A loop that looks at the first listed feeder only.
FirstFeederNotALine(lv, g) == lv # <<>> /\ ~In(lv[1], LineIds(g))

\* Lines 79-81: the loop raises at the first i with
\* i not in grid_data["line"]["id"].
SomeFeederNotALine(lv, g) == \E k \in DOMAIN lv : ~In(lv[k], LineIds(g))

\* Lines 78-81; with lv_feeders None lines 79-89 are skipped.
LVFeederIDCheck ==
    /\ pc = "lv_feeder_id"
    /\ IF lv_feeders.is_none
       THEN /\ pc' = "build_graph"
            /\ UNCHANGED <<error, checks_done>>
       ELSE /\ checks_done' = Append(checks_done, "lv_feeder_id")
            /\ IF SomeFeederNotALine(lv_feeders.list, grid_data)
               THEN /\ pc' = "raised"
                    /\ error' = Raise("InvalidLVFeederIDError",
                                      "LV feeder IDs are not valid line IDs")
               ELSE /\ pc' = "lv_from_node"
                    /\ error' = error
    /\ SimFrame

\* np.where(grid_data["line"]["id"] == i): the row of the line with id i.
LineIndex(g, i) == CHOOSE k \in DOMAIN g.line : g.line[k].id = i

\* A comparison with the other end of the transformer.
SomeFeederNotFromTransformerFrom(lv, g) ==
    \E k \in DOMAIN lv :
        g.line[LineIndex(g, lv[k])].from_node # g.transformer[1].from_node

\* Lines 84-89: the loop raises at the first i whose line has a from_node
\* that is not grid_data["transformer"][0]["to_node"].
SomeFeederNotFromTransformer(lv, g) ==
    \E k \in DOMAIN lv :
        g.line[LineIndex(g, lv[k])].from_node # g.transformer[1].to_node

\* Lines 83-89.
LVFeederFromNodeCheck ==
    /\ pc = "lv_from_node"
    /\ checks_done' = Append(checks_done, "lv_from_node")
    /\ IF SomeFeederNotFromTransformer(lv_feeders.list, grid_data)
       THEN /\ pc' = "raised"
            /\ error' = Raise("WrongFromNodeLVFeederError",
                   "The LV Feeder from_node does not correspond with the transformer to_node")
       ELSE /\ pc' = "build_graph"
            /\ error' = error
    /\ SimFrame

\* A branch counted as enabled when either end is connected.
StatusEnabledEitherEnd(from_status, to_status) ==
    from_status = 1 \/ to_status = 1

\* Lines 98 and 102: a == 1 & b == 1 is the chain a == (1 & b) == 1, and
\* 1 & b is the lowest bit of b.
StatusEnabled(from_status, to_status) ==
    /\ from_status = to_status % 2
    /\ to_status % 2 = 1

\* Lines 95-105: one flag per line, then the flag of transformer 0.
EdgeEnabledOf(g) ==
    [i \in 1..(Len(g.line) + 1) |->
        IF i <= Len(g.line)
        THEN StatusEnabled(g.line[i].from_status, g.line[i].to_status)
        ELSE StatusEnabled(g.transformer[1].from_status,
                           g.transformer[1].to_status)]

\* Lines 91-93: the pairs of the lines, then those of the transformers.
EdgePairsOf(g) ==
    [i \in 1..(Len(g.line) + Len(g.transformer)) |->
        IF i <= Len(g.line)
        THEN <<g.line[i].from_node, g.line[i].to_node>>
        ELSE <<g.transformer[i - Len(g.line)].from_node,
               g.transformer[i - Len(g.line)].to_node>>]

\* Line 107: the ids of the lines, then those of the transformers.
EdgeIdsOf(g) ==
    [i \in 1..(Len(g.line) + Len(g.transformer)) |->
        IF i <= Len(g.line) THEN g.line[i].id
        ELSE g.transformer[i - Len(g.line)].id]

\* Lines 91-110 and 122-148: the five arguments are computed from grid_data
\* and GraphProcessor is called with them.
CallGraphProcessor(g) ==
    /\ vertex_ids' = g.node
    /\ edge_ids' = EdgeIdsOf(g)
    /\ edge_vertex_id_pairs' = EdgePairsOf(g)
    /\ edge_enabled' = EdgeEnabledOf(g)
    /\ source_vertex_id' = g.source[1].node
    /\ pc' = "called"
    /\ error' = NoError
    /\ adjacency_list' = EmptyDict
    /\ adjacency_built' = FALSE
    /\ vertex_visited' = <<>>
    /\ vertex_parents' = EmptyDict
    /\ stack' = <<>>
    /\ dfs_calls' = 0

\* Lines 91-110.
BuildGraph ==
    /\ pc = "build_graph"
    /\ checks_done' = Append(checks_done, "graph")
    /\ CallGraphProcessor(grid_data)
    /\ UNCHANGED <<outcome, first_call, called_by, grid_data, lv_feeders,
                   PowerSimModel, grid_before, n1_disabled_edge_id,
                   alt_edges, alt_position, results, solver_runs, results_df,
                   sweep>>

-----------------------------------------------------------------------------
(* PowerSim.n1_calculations                                                *)

\* Lines 112-148: the call, the conversion of grid_data and the construction
\* of a GraphProcessor.  The grid handed in is the one PowerSim was built on.
N1Calculations ==
    /\ pc = "returned"
    /\ called_by = "PowerSim.__init__"
    /\ \E e \in QueryArgs : n1_disabled_edge_id' = e
    /\ called_by' = "n1_calculations"
    /\ grid_before' = grid_data
    /\ CallGraphProcessor(grid_data)
    /\ UNCHANGED <<outcome, first_call, grid_data, lv_feeders, PowerSimModel,
                   checks_done, alt_edges, alt_position, results,
                   solver_runs, results_df,
                   sweep>>

\* Lines 150-158 with the find_alternative_edges of
\* assignment_1/graph_processing.py: the call returns None and the for
\* statement over None raises TypeError.
N1AlternativesPlaceholder ==
    /\ pc = "returned"
    /\ called_by = "n1_calculations"
    /\ outcome' = find_alternative_edges(n1_disabled_edge_id)
    /\ pc' = "raised"
    /\ error' = Raise("TypeError", "'NoneType' object is not iterable")
    /\ UNCHANGED <<inputs, locals, first_call, sim>>

\* What find_alternative_edges is documented to do: IDNotFoundError for an
\* unknown id, EdgeAlreadyDisabledError for a disabled edge, and otherwise,
\* in ascending order, the ids of the disabled edges that join the vertices
\* below the edge to the other vertices.
find_alternative_edges_documented(e) ==
    IF ~In(e, edge_ids)
    THEN [kind |-> "raise", value |-> <<>>, error |-> "IDNotFoundError"]
    ELSE IF EdgeAt(e) \in DisabledEdges
    THEN [kind |-> "raise", value |-> <<>>,
          error |-> "EdgeAlreadyDisabledError"]
    ELSE LET A == Downstream(EdgeAt(e))
             bridging == {j \in DisabledEdges :
                             Cardinality(Ends(j) \cap A) = 1
                             /\ Cardinality(Ends(j) \ A) = 1}
         IN  [kind |-> "list",
              value |-> Ascending({edge_ids[j] : j \in bridging}),
              error |-> "None"]

\* Lines 150-156 with a find_alternative_edges that does what it is
\* documented to do.
N1AlternativesDocumented ==
    /\ pc = "returned"
    /\ called_by = "n1_calculations"
    /\ LET r == find_alternative_edges_documented(n1_disabled_edge_id)
       IN  IF r.kind = "raise"
           THEN /\ pc' = "raised"
                /\ error' = Raise(r.error, "")
                /\ UNCHANGED alt_edges
           ELSE /\ pc' = "n1_loop"
                /\ error' = error
                /\ alt_edges' = r.value
    /\ alt_position' = 0
    /\ results' = <<>>
    /\ UNCHANGED <<inputs, locals, outcome, first_call, called_by, grid_data,
                   lv_feeders, PowerSimModel, checks_done, grid_before,
                   n1_disabled_edge_id, solver_runs, results_df,
                   sweep>>

\* Lines 159-163: the first row of line_data whose id is alt_line_id, or
\* None (0 here) when no line has that id.
AltLineIndex(line_data, alt_line_id) ==
    IF \E i \in DOMAIN line_data : line_data[i].id = alt_line_id
    THEN CHOOSE i \in DOMAIN line_data :
            /\ line_data[i].id = alt_line_id
            /\ \A j \in 1..(i - 1) : line_data[j].id # alt_line_id
    ELSE 0

\* Line 165: line_data["to_status"][alt_line_index] = 1, where line_data is
\* grid_data["line"] itself.
LineDataAfterUpdate(line_data, alt_line_index) ==
    [line_data EXCEPT ![alt_line_index].to_status = 1]

\* power_flow_processing.py lines 171-233: the loading table of a batch run
\* of the model with the load profiles as the only update.  The run is
\* power-grid-model's; its result is a function of the grid the model holds.
aggregate_loading_table(model) ==
    [Max_Loading |-> <<"max", EdgeEnabledOf(model)>>,
     Max_Loading_ID |-> <<"idxmax", EdgeEnabledOf(model)>>,
     Max_Loading_Timestamp |-> <<"timestamp", EdgeEnabledOf(model)>>]

\* Lines 158-181: one pass of the loop over alt_edges.
N1Iteration ==
    /\ pc = "n1_loop"
    /\ alt_position < Len(alt_edges)
    /\ alt_position' = alt_position + 1
    /\ LET alt_line_id == alt_edges[alt_position + 1]
           alt_line_index == AltLineIndex(grid_data.line, alt_line_id)
           loading_table == aggregate_loading_table(PowerSimModel)
       IN  IF alt_line_index # 0
           THEN /\ grid_data' =
                      [grid_data EXCEPT !.line =
                          LineDataAfterUpdate(grid_data.line, alt_line_index)]
                /\ solver_runs' =
                      Append(solver_runs,
                             [alternative |-> alt_line_id,
                              edge_enabled |-> EdgeEnabledOf(PowerSimModel)])
                /\ results' =
                      Append(results,
                             [Alternative_Line_ID |-> alt_line_id,
                              Max_Loading |-> loading_table.Max_Loading,
                              Max_Loading_ID |-> loading_table.Max_Loading_ID,
                              Max_Loading_Timestamp |->
                                  loading_table.Max_Loading_Timestamp])
           ELSE UNCHANGED <<grid_data, solver_runs, results>>
    /\ UNCHANGED <<inputs, pc, error, locals, outcome, first_call, called_by,
                   lv_feeders, PowerSimModel, checks_done, grid_before,
                   n1_disabled_edge_id, alt_edges, results_df,
                   sweep>>

\* The keys of the dictionaries appended at lines 174-181.
RowColumns ==
    <<"Alternative_Line_ID", "Max_Loading", "Max_Loading_ID",
      "Max_Loading_Timestamp">>

\* The columns named at line 185.
N1Columns ==
    <<"Alternative_Line_ID", "Max_Loading", "Max_Loading_ID",
      "Max_Loading_Timestamp">>

\* Lines 182-186: pd.DataFrame(results) has the keys of the rows as its
\* columns; an empty one is replaced by a table with the columns of line 185.
DataFrame(rows) ==
    [columns |-> IF rows = <<>> THEN N1Columns ELSE RowColumns,
     rows |-> rows]

\* Lines 182-188.
N1Return ==
    /\ pc = "n1_loop"
    /\ alt_position = Len(alt_edges)
    /\ results_df' = DataFrame(results)
    /\ pc' = "n1_returned"
    /\ UNCHANGED <<inputs, error, locals, outcome, first_call, called_by,
                   grid_data, lv_feeders, PowerSimModel, checks_done,
                   grid_before, n1_disabled_edge_id, alt_edges, alt_position,
                   results, solver_runs, sweep>>

-----------------------------------------------------------------------------
(* The PowerSim calls the model makes.                                     *)

InitPowerSim(g, lv, t, p) ==
    /\ vertex_ids = <<>>
    /\ edge_ids = <<>>
    /\ edge_vertex_id_pairs = <<>>
    /\ edge_enabled = <<>>
    /\ source_vertex_id = PyNone
    /\ pc = "PowerSim"
    /\ error = NoError
    /\ adjacency_list = EmptyDict
    /\ adjacency_built = FALSE
    /\ vertex_visited = <<>>
    /\ vertex_parents = EmptyDict
    /\ stack = <<>>
    /\ dfs_calls = 0
    /\ outcome = NoCall
    /\ first_call = NoCall
    /\ called_by = "PowerSim.__init__"
    /\ grid_data = g
    /\ lv_feeders = lv
    /\ PowerSimModel = NoGrid
    /\ checks_done = <<>>
    /\ grid_before = NoGrid
    /\ n1_disabled_edge_id = 0
    /\ alt_edges = <<>>
    /\ alt_position = 0
    /\ results = <<>>
    /\ solver_runs = <<>>
    /\ results_df = NoTable
    /\ tap_data = t
    /\ power_profiles = p
    /\ call_args = NoArgs
    /\ flow_figure = NoFigure
    /\ update_tap = <<>>
    /\ tap_index = 0
    /\ energy_loss_aggregate = <<>>
    /\ voltage_deviation = <<>>
    /\ optimal_tap = PyNone
    /\ batch_runs = <<>>

\* A construction whose grid and profiles play no part in a tap sweep.
InitSimWith(g, lv) == InitPowerSim(g, lv, NoTaps, NoProfiles)

\* Grids with one source and one transformer from node 0 to node 1, called
\* without lv_feeders: any set of at most MaxLines lines between distinct
\* nodes, any statuses, any source node.
InitTopology ==
    \E n \in 2..MaxNodes :
    \E S \in LineSets({pr \in OrderedPairs(n) : pr[1] < pr[2]}) :
    \E st \in [1..(Cardinality(S) + 1) -> Statuses \X Statuses] :
    \E s \in 0..(n - 1) :
        InitSimWith(
            Grid([i \in 1..n |-> i - 1],
                 LinesOf(Listed(S), st),
                 <<[node |-> s]>>,
                 <<Branch(Cardinality(S) + 1, 0, 1,
                          st[Cardinality(S) + 1][1],
                          st[Cardinality(S) + 1][2])>>),
            NoFeeders)

\* Grids with every branch closed, called with a list of at most MaxFeeders
\* feeder ids: the lines run in either direction.
InitFeeders ==
    \E n \in 2..MaxNodes :
    \E S \in LineSets(OrderedPairs(n)) :
    \E lv \in SeqsUpTo(1..(MaxLines + 1), MaxFeeders) :
        InitSimWith(
            Grid([i \in 1..n |-> i - 1],
                 LinesOf(Listed(S), [i \in 1..Cardinality(S) |-> <<1, 1>>]),
                 <<[node |-> 0]>>,
                 <<Branch(Cardinality(S) + 1, 0, 1, 1, 1)>>),
            Feeders(lv))

\* Grids with any number of sources and of transformers up to MaxCount.
InitCounts ==
    \E n \in 2..MaxNodes :
    \E line \in {<<>>, <<Branch(1, 1, 0, 1, 1)>>} :
    \E src \in SeqsUpTo(0..1, MaxCount) :
    \E c \in 0..MaxCount :
    \E lv \in {NoFeeders, Feeders(<<>>), Feeders(<<1>>), Feeders(<<2>>)} :
        InitSimWith(
            Grid([i \in 1..n |-> i - 1],
                 line,
                 [i \in DOMAIN src |-> [node |-> src[i]]],
                 [i \in 1..c |-> Branch(Len(line) + i, 0, 1, 1, 1)]),
            lv)

InitSim ==
    \/ InitTopology
    \/ InitFeeders
    \/ InitCounts
    \/ \E g \in {TestGrid, TestGridNotFullyConnected, TestGridCycle} :
       \E lv \in {NoFeeders, Feeders(<<5>>), Feeders(<<2>>), Feeders(<<20>>)} :
          InitSimWith(g, lv)

NextSim ==
    \/ PowerFlowInit
    \/ SourceCheck
    \/ TransformerCheck
    \/ LVFeederIDCheck
    \/ LVFeederFromNodeCheck
    \/ BuildGraph
    \/ StructuralChecks
    \/ BuildAdjacencyList
    \/ DFSStart
    \/ DFSStep
    \/ DFSReturn
    \/ ConnectivityCheck
    \/ CycleCheck
    \/ N1Calculations
    \/ N1AlternativesPlaceholder
    \/ N1AlternativesDocumented
    \/ N1Iteration
    \/ N1Return

\* PowerSim constructions and n1_calculations calls.
SpecSim == InitSim /\ [][NextSim]_vars

-----------------------------------------------------------------------------
(* PowerFlow.batch_powerflow and PowerSim.optimal_tap_position.  The        *)
(* solver is outside the repository: flow_figure[t] stands for the figure   *)
(* the aggregation derives from a run with the transformer at tap position  *)
(* t, the summed Total_Loss or the mean voltage deviation according to      *)
(* opt_criteria, for the profiles of the call.                              *)

\* range(a, b)
PyRange(a, b) == [k \in 1..(IF b > a THEN b - a ELSE 0) |-> a + k - 1]

DigitChars == <<"0", "1", "2", "3", "4", "5", "6", "7", "8", "9">>

RECURSIVE Digits(_)
Digits(n) ==
    IF n < 10 THEN <<DigitChars[n + 1]>>
    ELSE Append(Digits(n \div 10), DigitChars[(n % 10) + 1])

\* f"{i}": the decimal digits of i, after a minus sign when i is negative.
FormatInt(i) == IF i < 0 THEN <<"-">> \o Digits(0 - i) ELSE Digits(i)

DigitValue(c) == (CHOOSE k \in DOMAIN DigitChars : DigitChars[k] = c) - 1

RECURSIVE DigitsValue(_)
DigitsValue(s) ==
    IF s = <<>> THEN 0
    ELSE 10 * DigitsValue(SubSeq(s, 1, Len(s) - 1)) + DigitValue(s[Len(s)])

\* int(k) for a key written by f"{i}"
ParseInt(k) ==
    IF k[1] = "-" THEN 0 - DigitsValue(Tail(k)) ELSE DigitsValue(k)

\* d[k] = v on a dict kept as the list of its items in insertion order.
DictSet(d, k, v) ==
    IF \E j \in DOMAIN d : d[j].key = k
    THEN [j \in DOMAIN d |-> IF d[j].key = k THEN [key |-> k, value |-> v]
                                             ELSE d[j]]
    ELSE Append(d, [key |-> k, value |-> v])

\* min(d, key=lambda k: d[k]): the first key, in insertion order, whose value
\* no other value is below.
MinKey(d) ==
    LET j == CHOOSE j \in DOMAIN d :
                 /\ \A m \in DOMAIN d : d[j].value <= d[m].value
                 /\ \A m \in 1..(j - 1) : d[m].value > d[j].value
    IN  d[j].key

\* The profile checks with the load-id check moved before the timestamp
\* check.
ProfileErrorColumnsFirst(active, reactive) ==
    IF active.is_none
    THEN Raise("PowerProfileNotFound", "No active power profile provided.")
    ELSE IF reactive.is_none
    THEN Raise("PowerProfileNotFound", "No reactive power profile provided.")
    ELSE IF active.columns # reactive.columns
    THEN Raise("LoadIDMismatch", "Load IDs in given power profiles do not match")
    ELSE IF active.index # reactive.index
    THEN Raise("TimestampMismatch",
               "Timestamps of active and reactive power profiles do not match.")
    ELSE NoError

\* batch_powerflow, lines 80-91: the first failing check decides.
ProfileError(active, reactive) ==
    IF active.is_none
    THEN Raise("PowerProfileNotFound", "No active power profile provided.")
    ELSE IF reactive.is_none
    THEN Raise("PowerProfileNotFound", "No reactive power profile provided.")
    ELSE IF active.index # reactive.index
    THEN Raise("TimestampMismatch",
               "Timestamps of active and reactive power profiles do not match.")
    ELSE IF active.columns # reactive.columns
    THEN Raise("LoadIDMismatch", "Load IDs in given power profiles do not match")
    ELSE NoError

\* batch_powerflow, lines 104-112: the update carries a transformer tap_pos
\* only when tap_value != 0; otherwise the run keeps the grid's own tap_pos.
RunTapPos(tap_value, transformer) ==
    IF tap_value # 0 THEN tap_value ELSE transformer.tap_pos

\* batch_powerflow: the exception it raises, or the tap position of the run
\* it hands to calculate_power_flow.
batch_powerflow(active, reactive, tap_value, transformer) ==
    [error |-> ProfileError(active, reactive),
     tap_pos |-> RunTapPos(tap_value, transformer)]

\* A PowerSim object exists: __init__ has returned.
PowerSimBuilt == pc = "returned" /\ called_by = "PowerSim.__init__"

\* The profiles tried in direct batch_powerflow calls: None, and DataFrames
\* with one or two timestamps over load 8 or load 9.
BatchProfiles ==
    {NoProfile} \cup {Profile(i, c) : i \in {<<1>>, <<1, 2>>},
                                      c \in {<<8>>, <<9>>}}

\* self.PowerSimModel.batch_powerflow(active, reactive, tap_value)
BatchPowerflow ==
    /\ PowerSimBuilt
    /\ \E a \in BatchProfiles, r \in BatchProfiles, t \in Taps :
          LET out == batch_powerflow(a, r, t, tap_data)
          IN  /\ call_args' = [active |-> a, reactive |-> r, tap_value |-> t,
                               opt_criteria |-> "None"]
              /\ IF out.error # NoError
                 THEN /\ pc' = "batch_raised"
                      /\ error' = out.error
                      /\ UNCHANGED batch_runs
                 ELSE /\ pc' = "batch_returned"
                      /\ error' = error
                      /\ batch_runs' = Append(batch_runs, out.tap_pos)
    /\ UNCHANGED <<inputs, locals, outcome, first_call, called_by, grid_data,
                   lv_feeders, PowerSimModel, checks_done, grid_before,
                   n1_disabled_edge_id, alt_edges, alt_position, results,
                   solver_runs, results_df, tap_data, power_profiles,
                   flow_figure, update_tap, tap_index, energy_loss_aggregate,
                   voltage_deviation, optimal_tap>>

\* The profiles tried as arguments of optimal_tap_position.
SweepProfiles == {NoProfile, Profile(<<1>>, <<8>>)}

\* The figures a run can yield.
Figures == 0..1

\* Lines 200-214: the defaults, the candidates and the empty dicts.
OptimalTapPosition ==
    /\ PowerSimBuilt
    /\ \E a \in SweepProfiles, r \in SweepProfiles,
          c \in {"TotalEnergyLoss", "VoltageDeviation"},
          f \in [Taps -> Figures] :
          /\ call_args' =
                [active |-> IF a.is_none THEN power_profiles.active ELSE a,
                 reactive |-> IF r.is_none THEN power_profiles.reactive ELSE r,
                 tap_value |-> 0, opt_criteria |-> c]
          /\ flow_figure' = f
    /\ update_tap' = PyRange(tap_data.tap_max, tap_data.tap_min + 1)
    /\ tap_index' = 0
    /\ energy_loss_aggregate' = <<>>
    /\ voltage_deviation' = <<>>
    /\ pc' = "tap_loop"
    /\ UNCHANGED <<inputs, error, locals, outcome, first_call, called_by,
                   grid_data, lv_feeders, PowerSimModel, checks_done,
                   grid_before, n1_disabled_edge_id, alt_edges, alt_position,
                   results, solver_runs, results_df, tap_data, power_profiles,
                   optimal_tap, batch_runs>>

\* Lines 216-238, one candidate i: aggregate_loading_table passes tap_value=i
\* to batch_powerflow, aggregate_voltage_table passes no tap_value.
OptimalTapIteration ==
    /\ pc = "tap_loop"
    /\ tap_index < Len(update_tap)
    /\ LET i == update_tap[tap_index + 1]
           loss == call_args.opt_criteria = "TotalEnergyLoss"
           out == batch_powerflow(call_args.active, call_args.reactive,
                                  IF loss THEN i ELSE 0, tap_data)
       IN  IF out.error # NoError
           THEN /\ pc' = "tap_raised"
                /\ error' = out.error
                /\ UNCHANGED <<tap_index, energy_loss_aggregate,
                               voltage_deviation, batch_runs>>
           ELSE /\ batch_runs' = Append(batch_runs, out.tap_pos)
                /\ IF loss
                   THEN /\ energy_loss_aggregate' =
                              DictSet(energy_loss_aggregate, FormatInt(i),
                                      flow_figure[out.tap_pos])
                        /\ UNCHANGED voltage_deviation
                   ELSE /\ voltage_deviation' =
                              DictSet(voltage_deviation, FormatInt(i),
                                      flow_figure[out.tap_pos])
                        /\ UNCHANGED energy_loss_aggregate
                /\ tap_index' = tap_index + 1
                /\ UNCHANGED <<pc, error>>
    /\ UNCHANGED <<inputs, locals, outcome, first_call, called_by, grid_data,
                   lv_feeders, PowerSimModel, checks_done, grid_before,
                   n1_disabled_edge_id, alt_edges, alt_position, results,
                   solver_runs, results_df, tap_data, power_profiles,
                   call_args, flow_figure, update_tap, optimal_tap>>

\* Lines 240-248: min() over the dict of the criterion; min() of an empty
\* dict raises ValueError.
OptimalTapReturn ==
    /\ pc = "tap_loop"
    /\ tap_index = Len(update_tap)
    /\ LET d == IF call_args.opt_criteria = "TotalEnergyLoss"
                THEN energy_loss_aggregate ELSE voltage_deviation
       IN  IF d = <<>>
           THEN /\ pc' = "tap_raised"
                /\ error' = Raise("ValueError",
                                  "min() arg is an empty sequence")
                /\ UNCHANGED optimal_tap
           ELSE /\ pc' = "tap_returned"
                /\ optimal_tap' = ParseInt(MinKey(d))
                /\ error' = error
    /\ UNCHANGED <<inputs, locals, outcome, first_call, called_by, grid_data,
                   lv_feeders, PowerSimModel, checks_done, grid_before,
                   n1_disabled_edge_id, alt_edges, alt_position, results,
                   solver_runs, results_df, tap_data, power_profiles,
                   call_args, flow_figure, update_tap, tap_index,
                   energy_loss_aggregate, voltage_deviation, batch_runs>>

\* The tap positions between the two bounds, whichever is larger.
TapsBetween(a, b) == (IF a <= b THEN a ELSE b)..(IF a <= b THEN b ELSE a)

\* A grid PowerSim accepts: source at node 0, transformer 2 from node 0 to
\* node 1, line 1 from node 1 to node 2, every branch closed.
RadialGrid ==
    Grid(<<0, 1, 2>>, <<Branch(1, 1, 2, 1, 1)>>, <<[node |-> 0]>>,
         <<Branch(2, 0, 1, 1, 1)>>)

\* PowerSim built on the radial grid with line 1 as its feeder, with any tap
\* bounds, any tap position between them, and with or without profiles of
\* its own.
InitTap ==
    \E tmin \in Taps :
    \E tmax \in Taps :
    \E tpos \in TapsBetween(tmin, tmax) :
    \E p \in {NoProfiles, [active |-> Profile(<<1>>, <<8>>),
                           reactive |-> Profile(<<1>>, <<8>>)]} :
        InitPowerSim(RadialGrid, Feeders(<<1>>),
                     [tap_min |-> tmin, tap_max |-> tmax, tap_pos |-> tpos],
                     p)

NextTap ==
    \/ PowerFlowInit
    \/ SourceCheck
    \/ TransformerCheck
    \/ LVFeederIDCheck
    \/ LVFeederFromNodeCheck
    \/ BuildGraph
    \/ StructuralChecks
    \/ BuildAdjacencyList
    \/ DFSStart
    \/ DFSStep
    \/ DFSReturn
    \/ ConnectivityCheck
    \/ CycleCheck
    \/ BatchPowerflow
    \/ OptimalTapPosition
    \/ OptimalTapIteration
    \/ OptimalTapReturn

\* PowerSim constructions followed by one power-flow call.
SpecTap == InitTap /\ [][NextTap]_vars

-----------------------------------------------------------------------------
(* What a PowerSim call is about, stated without the code's procedure.     *)

Checked(c) == c \in Range(checks_done)

\* Some listed feeder id is the id of no line.
FeederIdUnknown ==
    \E k \in DOMAIN lv_feeders.list :
        \A i \in DOMAIN grid_data.line :
            grid_data.line[i].id # lv_feeders.list[k]

\* Some listed feeder is a line that does not leave the transformer's to_node.
FeederLeavesElsewhere ==
    \E k \in DOMAIN lv_feeders.list :
        \E i \in DOMAIN grid_data.line :
            /\ grid_data.line[i].id = lv_feeders.list[k]
            /\ grid_data.line[i].from_node # grid_data.transformer[1].to_node

C17_SourceThenTransformerCount ==
    /\ (Checked("source") /\ Len(grid_data.source) # 1) =>
          /\ pc = "raised"
          /\ error = Raise("NotExactlyOneSourceError",
                           "There is not exactly one source")
          /\ checks_done = <<"source">>
    /\ (Checked("transformer") /\ Len(grid_data.transformer) # 1) =>
          /\ pc = "raised"
          /\ error = Raise("NotExactlyOneTransformerError",
                           "There is not exactly one transformer")
          /\ checks_done = <<"source", "transformer">>
    /\ (Checked("lv_feeder_id") \/ Checked("lv_from_node") \/ Checked("graph")) =>
          (Len(grid_data.source) = 1 /\ Len(grid_data.transformer) = 1)

\* Two transformers and a feeder list naming no line: the transformer count
\* decided.
C17_Witness ==
    /\ RaisedType("NotExactlyOneTransformerError")
    /\ Len(grid_data.transformer) > 1
    /\ ~lv_feeders.is_none
    /\ FeederIdUnknown

\* C18: with lv_feeders given, a feeder id that is no line id is refused with
\* InvalidLVFeederIDError before the from_node of any feeder is looked at;
\* with lv_feeders None or empty no feeder error is raised.
C18_FeederIdsCheckedFirst ==
    /\ (Checked("lv_feeder_id") /\ FeederIdUnknown) =>
          /\ pc = "raised"
          /\ error = Raise("InvalidLVFeederIDError",
                           "LV feeder IDs are not valid line IDs")
          /\ ~Checked("lv_from_node")
    /\ (~lv_feeders.is_none /\ Checked("transformer") /\ pc # "raised"
        /\ pc # "lv_feeder_id") => Checked("lv_feeder_id")
    /\ (lv_feeders.is_none \/ lv_feeders.list = <<>>) =>
          error.type \notin {"InvalidLVFeederIDError",
                             "WrongFromNodeLVFeederError"}

\* The first listed feeder is a line leaving the wrong node, the second is no
\* line: InvalidLVFeederIDError was raised.
C18_Witness ==
    /\ RaisedType("InvalidLVFeederIDError")
    /\ Len(lv_feeders.list) = 2
    /\ \E i \in DOMAIN grid_data.line :
          /\ grid_data.line[i].id = lv_feeders.list[1]
          /\ grid_data.line[i].from_node # grid_data.transformer[1].to_node

\* C19: when every listed feeder is a line, WrongFromNodeLVFeederError is
\* raised exactly when some listed feeder's from_node is not the transformer's
\* to_node, and before the graph is built.
C19_FeederFromNode ==
    /\ Checked("lv_from_node") =>
          /\ FeederLeavesElsewhere <=>
                (pc = "raised" /\ error = Raise("WrongFromNodeLVFeederError",
                    "The LV Feeder from_node does not correspond with the transformer to_node"))
          /\ FeederLeavesElsewhere => ~Checked("graph")
    /\ ~Checked("lv_from_node") => error.type # "WrongFromNodeLVFeederError"
    /\ (Checked("lv_feeder_id") /\ ~FeederIdUnknown /\ pc # "lv_from_node") =>
          Checked("lv_from_node")

\* Two feeders, the first leaving the transformer's to_node and the second
\* not: WrongFromNodeLVFeederError was raised.
C19_Witness ==
    /\ RaisedType("WrongFromNodeLVFeederError")
    /\ Len(lv_feeders.list) = 2
    /\ \E i \in DOMAIN grid_data.line :
          /\ grid_data.line[i].id = lv_feeders.list[1]
          /\ grid_data.line[i].from_node = grid_data.transformer[1].to_node

\* C20: PowerSim on a grid that passes the count and feeder checks and has a
\* node the source does not reach raises GraphNotFullyConnectedError with the
\* message "Graph not fully connected. Cannot reach all vertices.".
C20_UnreachableNodeMessage ==
    (/\ called_by = "PowerSim.__init__"
     /\ Checked("graph")
     /\ Finished
     /\ ~StructurallyInvalid
     /\ ~ReachesAll(EnabledEdges)) =>
        /\ pc = "raised"
        /\ error = Raise("GraphNotFullyConnectedError",
                         "Graph not fully connected. Cannot reach all vertices.")

\* C21: PowerSim on a grid that passes the count and feeder checks and whose
\* enabled lines and transformer form a cycle raises GraphCycleError with the
\* message "Cycle found".
C21_CycleMessage ==
    (/\ called_by = "PowerSim.__init__"
     /\ Checked("graph")
     /\ Finished
     /\ ~StructurallyInvalid
     /\ HasCycle(EnabledEdges)) =>
        /\ pc = "raised"
        /\ error = Raise("GraphCycleError", "Cycle found")

RECURSIVE ClimbsToSource(_, _)
\* Following parents from v reaches the source within k steps.
ClimbsToSource(v, k) ==
    IF v = source_vertex_id THEN TRUE
    ELSE IF k = 0 \/ v \notin DOMAIN vertex_parents THEN FALSE
    ELSE ClimbsToSource(vertex_parents[v], k - 1)

\* C23: after a successful construction the parent map has an entry for every
\* vertex, the source's entry is the no-parent marker, every other vertex's
\* parent is joined to it by an enabled edge, and following parents from any
\* vertex reaches the source.
C23_ParentMapIsRootedTree ==
    (pc = "returned" /\ called_by = "GraphProcessor") =>
        /\ DOMAIN vertex_parents = V
        /\ vertex_parents[source_vertex_id] = NaN
        /\ \A v \in V \ {source_vertex_id} :
              /\ vertex_parents[v] \in V \ {v}
              /\ \E i \in EnabledEdges : Ends(i) = {v, vertex_parents[v]}
              /\ ClimbsToSource(v, Cardinality(V))

\* An accepted graph in which some vertex is two edges away from the source.
C23_Witness ==
    /\ pc = "returned"
    /\ called_by = "GraphProcessor"
    /\ \E v \in V \ {source_vertex_id} :
          /\ vertex_parents[v] # source_vertex_id
          /\ vertex_parents[vertex_parents[v]] = source_vertex_id

\* C24: construction raises GraphCycleError only if the enabled edges, the
\* edges whose flag at the same list position is true, contain a cycle.
C24_CycleErrorOnlyOnCycle ==
    (called_by = "GraphProcessor" /\ RaisedType("GraphCycleError")) =>
        HasCycle(EnabledEdges)

\* C25: no input with a self-loop, enabled or disabled, is accepted.
C25_SelfLoopNeverAccepted ==
    (called_by = "GraphProcessor" /\ pc = "returned") =>
        \A i \in DOMAIN edge_vertex_id_pairs :
            edge_vertex_id_pairs[i][1] # edge_vertex_id_pairs[i][2]

\* C26: construction terminates on every input, with success or a raised
\* error, and the traversal enters no vertex twice.
C26_ConstructionTerminates ==
    /\ [](Len(vertex_visited) = Cardinality(Range(vertex_visited)))
    /\ <>Finished

\* A traversal that came to its end on a graph whose enabled edges have a
\* cycle and leave a vertex unreached.
C26_Witness ==
    /\ Finished
    /\ dfs_calls > 1
    /\ HasCycle(EnabledEdges)
    /\ ~ReachesAll(EnabledEdges)

-----------------------------------------------------------------------------
(* optimal_tap_position and batch_powerflow                                 *)

\* The profiles of the call in progress pass the checks of batch_powerflow.
ProfilesValid == ProfileError(call_args.active, call_args.reactive) = NoError

\* The call of optimal_tap_position has ended, with a value or an exception.
TapCallEnded == pc \in {"tap_returned", "tap_raised"}

\* The first candidate whose run, made with the transformer at that
\* candidate, has a figure no other candidate's run is below.
IsFirstBest(t) ==
    \E j \in DOMAIN update_tap :
        /\ update_tap[j] = t
        /\ \A m \in DOMAIN update_tap :
              flow_figure[t] <= flow_figure[update_tap[m]]
        /\ \A m \in 1..(j - 1) :
              flow_figure[update_tap[m]] > flow_figure[t]

\* C22: on an accepted grid and with valid profiles, optimal_tap_position,
\* under either criterion, returns a tap position between tap_min and
\* tap_max, whichever is larger, and never fails for lack of candidates.
C22_TapWithinBounds ==
    (TapCallEnded /\ ProfilesValid) =>
        /\ pc = "tap_returned"
        /\ optimal_tap \in TapsBetween(tap_data.tap_min, tap_data.tap_max)

\* C27: with TotalEnergyLoss the value returned is the first candidate whose
\* loss is minimal, the loss of every candidate t, t = 0 included, being that
\* of a run with the transformer's tap position set to t.
C27_MinimalLossAtOwnTap ==
    (pc = "tap_returned" /\ call_args.opt_criteria = "TotalEnergyLoss") =>
        IsFirstBest(optimal_tap)

\* C28: with VoltageDeviation the value returned is a candidate whose
\* deviation is minimal, the deviation of every candidate t being that of a
\* run with the transformer's tap position set to t.
C28_MinimalDeviationAtOwnTap ==
    (pc = "tap_returned" /\ call_args.opt_criteria = "VoltageDeviation") =>
        \E j \in DOMAIN update_tap :
            /\ update_tap[j] = optimal_tap
            /\ \A m \in DOMAIN update_tap :
                  flow_figure[optimal_tap] <= flow_figure[update_tap[m]]

\* C29: batch_powerflow checks its profiles in a fixed order: a missing
\* active profile, then a missing reactive profile (PowerProfileNotFound),
\* then differing timestamps (TimestampMismatch), then differing load ids
\* (LoadIDMismatch); when a check fails the solver is not run and the model
\* and grid_data are left as they were.
C29_ProfilesCheckedInOrder ==
    [][(BatchPowerflow \/ OptimalTapIteration) =>
        LET a == call_args'.active
            r == call_args'.reactive
            failed == pc' \in {"batch_raised", "tap_raised"}
        IN  /\ failed <=> (\/ a.is_none
                           \/ r.is_none
                           \/ a.index # r.index
                           \/ a.columns # r.columns)
            /\ failed =>
                  /\ error'.type =
                        IF a.is_none \/ r.is_none THEN "PowerProfileNotFound"
                        ELSE IF a.index # r.index THEN "TimestampMismatch"
                        ELSE "LoadIDMismatch"
                  /\ error'.msg =
                        IF a.is_none
                        THEN "No active power profile provided."
                        ELSE IF r.is_none
                        THEN "No reactive power profile provided."
                        ELSE error'.msg
                  /\ batch_runs' = batch_runs
                  /\ PowerSimModel' = PowerSimModel
                  /\ grid_data' = grid_data
                  /\ tap_data' = tap_data
            /\ ~failed => Len(batch_runs') = Len(batch_runs) + 1]_vars

\* A call whose profiles differ both in timestamps and in load ids has
\* raised.
C29_Witness ==
    /\ pc = "batch_raised"
    /\ ~call_args.active.is_none
    /\ ~call_args.reactive.is_none
    /\ call_args.active.index # call_args.reactive.index
    /\ call_args.active.columns # call_args.reactive.columns

-----------------------------------------------------------------------------
(* The conversion of a grid to graph input                                  *)

\* C30: in __init__ and in n1_calculations, a line or the transformer is
\* marked enabled iff its from_status and its to_status both equal 1, and the
\* enabled list is aligned with the edge-id list, lines first, then the
\* transformer.
C30_EnabledIffBothEndsConnected ==
    (Checked("graph") /\ (called_by = "PowerSim.__init__"
                          \/ grid_data = grid_before)) =>
        /\ Len(edge_enabled) = Len(edge_ids)
        /\ Len(edge_ids) = Len(grid_data.line) + 1
        /\ \A i \in DOMAIN grid_data.line :
              /\ edge_ids[i] = grid_data.line[i].id
              /\ edge_enabled[i] <=> (/\ grid_data.line[i].from_status = 1
                                      /\ grid_data.line[i].to_status = 1)
        /\ edge_ids[Len(edge_ids)] = grid_data.transformer[1].id
        /\ edge_enabled[Len(edge_ids)] <=>
              (/\ grid_data.transformer[1].from_status = 1
               /\ grid_data.transformer[1].to_status = 1)

\* n1_calculations has converted a grid with a line connected at its from
\* side only and a line connected at both sides.
C30_Witness ==
    /\ Checked("graph")
    /\ called_by = "n1_calculations"
    /\ grid_data = grid_before
    /\ \E i \in DOMAIN grid_data.line :
          /\ grid_data.line[i].from_status = 1
          /\ grid_data.line[i].to_status = 0
          /\ ~edge_enabled[i]
    /\ \E i \in DOMAIN grid_data.line :
          /\ grid_data.line[i].from_status = 1
          /\ grid_data.line[i].to_status = 1
          /\ edge_enabled[i]

====
